---- MODULE Spec2Model ----
(***************************************************************************)
(* Model of chronos_forecast.py: the process-wide pipeline cache           *)
(* (get_pipeline), the three forecast operations (forecast_prices,         *)
(* forecast_with_events, forecast_post_event) and the command-line entry   *)
(* point (main).                                                           *)
(*                                                                         *)
(* Conventions.                                                            *)
(*  - Python None is the record None; a missing dict key is the empty      *)
(*    tuple <<>> and a present one the 1-tuple <<v>>.                      *)
(*  - A Python dict with fixed keys is a record; "key in dict" is          *)
(*    key \in DOMAIN dict.                                                 *)
(*  - A non-integer number is the pair <<numerator, denominator>> with a   *)
(*    positive denominator; percentiles are kept as hundredths (the value  *)
(*    times 100), which is exact for linear interpolation at the           *)
(*    percentiles 10, 25, 50, 75, 90.                                      *)
(*  - The forecasting engine (ChronosPipeline) is external: a load or a    *)
(*    predict may raise, and predict returns some sample matrix of the     *)
(*    requested shape.                                                     *)
(***************************************************************************)
EXTENDS Integers, Sequences, FiniteSets, TLC

\* ------------------------------------------------------------------ bounds
MaxAcquires == 4      \* get_pipeline calls in one run of SpecCache
MaxSamples == 4       \* num_samples of a direct forecast_prices call
MaxDays == 2          \* prediction_length
MaxCells == 8         \* cells of a sample matrix whose every content is explored
MaxEvents == 2        \* length of an event list
MaxSeed == 2          \* members of the engine's family of many-sample answers

\* ------------------------------------------------------------------ values
None == [none |-> TRUE]
NoName == "None"

\* argparse choices of --model (line 216) and other strings a caller may pass
Sizes == {"tiny", "mini", "small", "base", "large"}
UnknownSizes == {"unknown-size", "xl"}
AllSizes == Sizes \cup UnknownSizes

VARIABLES
  _pipeline,      \* the cached handle, or None
  _model_name,    \* the identifier the cached handle was loaded from, or NoName
  created,        \* handles constructed so far (each load returns a new object)
  ncalls,         \* get_pipeline calls made so far (SpecCache)
  last,           \* observation of the latest get_pipeline call, or None
  prev,           \* observation of the latest successful call before it, or None
  pc,             \* "ready" before the request runs, "done" after
  req,            \* the request: entry point and its arguments
  load_calls,     \* identifiers passed to from_pretrained during the request
  predict_calls,  \* calls of pipeline.predict during the request
  result,         \* what the called operation returned, or None
  raised,         \* the exception that escaped the operation, or ""
  stdout,         \* JSON documents printed on standard output
  exit_code,      \* process exit status of main, -1 while running
  engine_seed     \* selects the sample matrices the engine answers with

cache_vars == <<_pipeline, _model_name, created>>
acq_vars == <<ncalls, last, prev>>
run_vars == <<pc, req, load_calls, predict_calls, result, raised, stdout, exit_code,
              engine_seed>>
vars == <<_pipeline, _model_name, created, ncalls, last, prev,
          pc, req, load_calls, predict_calls, result, raised, stdout, exit_code,
          engine_seed>>

\* ------------------------------------------------------------ get_pipeline
model_map ==
  [tiny |-> "amazon/chronos-bolt-tiny",
   small |-> "amazon/chronos-bolt-small",
   base |-> "amazon/chronos-bolt-base",
   mini |-> "amazon/chronos-t5-mini",
   large |-> "amazon/chronos-t5-large"]

\* faulty variant: the fallback is the identifier the docstring lists for "small"
target_model_docstring(model_size) ==
  IF model_size \in DOMAIN model_map THEN model_map[model_size]
  ELSE "amazon/chronos-t5-small"

\* model_map.get(model_size, "amazon/chronos-bolt-small")
target_model(model_size) ==
  IF model_size \in DOMAIN model_map THEN model_map[model_size]
  ELSE "amazon/chronos-bolt-small"

\* faulty variant: the cache is never invalidated once filled
needs_load_first_only(target) == _pipeline = None

\* _pipeline is None or _model_name != target_model
needs_load(target) == _pipeline = None \/ _model_name # target

\* ChronosPipeline.from_pretrained(target_model, ...): a new handle object
from_pretrained(target) == [id |-> created + 1, model |-> target]

\* faulty variant: the identifier is recorded before the load is attempted
load_failed_name_first(target) ==
  [pipeline |-> _pipeline, model_name |-> target, created |-> created,
   target |-> target,
   loaded |-> <<target>>, raised |-> "ModelLoadError", ret |-> None]

\* from_pretrained raises: neither assignment of lines 54-59 is executed
load_failed(target) ==
  [pipeline |-> _pipeline, model_name |-> _model_name, created |-> created,
   target |-> target,
   loaded |-> <<target>>, raised |-> "ModelLoadError", ret |-> None]

\* from_pretrained returns: both globals are assigned, the new handle returned
load_succeeded(target) ==
  [pipeline |-> from_pretrained(target), model_name |-> target,
   created |-> created + 1, target |-> target,
   loaded |-> <<target>>, raised |-> "", ret |-> from_pretrained(target)]

\* get_pipeline(model_size) from the current cache; load_ok is the engine's
\* answer should a load be attempted. The record gives the globals after the
\* call, the identifiers passed to from_pretrained, the exception and the
\* returned handle.
get_pipeline(model_size, load_ok) ==
  LET target == target_model(model_size) IN
  IF needs_load(target)
  THEN IF load_ok THEN load_succeeded(target) ELSE load_failed(target)
  ELSE [pipeline |-> _pipeline, model_name |-> _model_name, created |-> created,
        target |-> target,
        loaded |-> <<>>, raised |-> "", ret |-> _pipeline]

\* One call of get_pipeline by a library caller, observed in `last`.
Acquire(model_size, load_ok) ==
  /\ ncalls < MaxAcquires
  /\ LET gp == get_pipeline(model_size, load_ok) IN
     /\ _pipeline' = gp.pipeline
     /\ _model_name' = gp.model_name
     /\ created' = gp.created
     /\ last' = [size |-> model_size, target |-> gp.target,
                 after_failure |-> (last # None /\ last.raised # ""),
                 before_pipeline |-> _pipeline, before_name |-> _model_name,
                 loaded |-> gp.loaded, raised |-> gp.raised, ret |-> gp.ret]
  /\ prev' = IF last # None /\ last.raised = "" THEN last ELSE prev
  /\ ncalls' = ncalls + 1
  /\ UNCHANGED run_vars

NoRequest == [entry |-> "none"]

InitCache ==
  /\ _pipeline = None /\ _model_name = NoName /\ created = 0
  /\ ncalls = 0 /\ last = None /\ prev = None
  /\ pc = "ready" /\ req = NoRequest
  /\ load_calls = <<>> /\ predict_calls = <<>>
  /\ result = None /\ raised = "" /\ stdout = <<>> /\ exit_code = -1
  /\ engine_seed = 0

NextCache == \E model_size \in AllSizes, load_ok \in BOOLEAN :
                Acquire(model_size, load_ok)

SpecCache == InitCache /\ [][NextCache]_vars

\* ------------------------------------------------------- claims on the cache
\* `last` is the latest get_pipeline call and `prev` the immediately preceding
\* successful one; only failed calls lie between them.
Successful(c) == c # None /\ c.raised = ""

\* C1 as stated: a call with the same modelSize as the immediately preceding
\* successful call performs no load and returns the same handle; a call with a
\* different modelSize performs exactly one load, returns a new handle and the
\* previously cached handle is no longer in the cache.
C1_AsStated ==
  (last # None /\ prev # None) =>
    IF last.size = prev.size
    THEN last.loaded = <<>> /\ last.ret = prev.ret
    ELSE /\ Len(last.loaded) = 1
         /\ Successful(last) =>
              /\ last.ret # prev.ret
              /\ _pipeline = last.ret
              /\ _pipeline # last.before_pipeline

\* C1 amended: "same/different size" read as "size resolving to the
\* same/different model identifier": a call that resolves to the identifier of
\* the immediately preceding successful call performs no load and returns the
\* same handle instance; a call that resolves to a different identifier attempts
\* exactly one load and, when it succeeds, returns a new handle that replaces
\* the previously cached one.
C1_CacheCoherence ==
  (last # None /\ prev # None) =>
    IF last.target = prev.target
    THEN last.loaded = <<>> /\ last.ret = prev.ret /\ _pipeline = prev.ret
    ELSE /\ last.loaded = <<last.target>>
         /\ Successful(last) =>
              /\ last.ret # prev.ret
              /\ last.ret.id = created
              /\ _pipeline = last.ret
              /\ _pipeline # last.before_pipeline
              /\ last.before_pipeline = prev.ret

C1_Witness ==
  /\ last # None /\ prev # None
  /\ prev.size = "small" /\ last.size = "base"
  /\ Successful(last) /\ last.ret.id = 2 /\ prev.ret.id = 1

\* C9: a size outside the five known ones never fails on resolution and
\* resolves to the identifier of "small"; so "small" followed by an unknown size
\* (or the reverse) performs no second load and returns the same handle.
C9_Fallback ==
  last # None =>
    /\ last.size \notin Sizes =>
         /\ last.target = model_map["small"]
         /\ last.raised \in {"", "ModelLoadError"}
         /\ \A i \in 1..Len(last.loaded) : last.loaded[i] = model_map["small"]
         /\ Successful(last) => last.ret.model = model_map["small"]
    /\ (prev # None /\ ((prev.size = "small" /\ last.size \notin Sizes)
                         \/ (prev.size \notin Sizes /\ last.size = "small"))) =>
         last.loaded = <<>> /\ last.ret = prev.ret

C9_Witness ==
  /\ last # None /\ prev # None
  /\ prev.size = "small" /\ last.size = "unknown-size"
  /\ last.ret = prev.ret /\ created = 1

\* C10: whatever loads fail, the cached handle and the cached identifier are
\* both empty or both set and the identifier is the one the handle was loaded
\* from; a failing load is attempted once, for the resolved identifier only,
\* reaches the caller, and leaves both globals as they were, so the size cached
\* before the failure is still served from the cache without a load.
C10_FailureKeepsCache ==
  /\ (_pipeline = None) <=> (_model_name = NoName)
  /\ _pipeline # None => _pipeline.model = _model_name
  /\ (last # None /\ last.raised # "") =>
       /\ last.loaded = <<last.target>>
       /\ last.ret = None
       /\ _pipeline = last.before_pipeline
       /\ _model_name = last.before_name
  /\ (last # None /\ prev # None /\ last.after_failure
        /\ last.size = prev.size) =>
       last.loaded = <<>> /\ last.ret = prev.ret

C10_Witness ==
  /\ last # None /\ prev # None /\ last.after_failure
  /\ last.size = prev.size /\ last.ret = prev.ret /\ created = 1 /\ ncalls = 3

\* =================================================================== numerics
\* The engine is a deterministic sampler unknown to the program: engine_seed
\* fixes the matrix it answers with for each requested shape. The cells are the
\* base-3 digits of the seed (shifted by the cell's position and the length of
\* the context), so the seeds below 3^(cells) give every matrix over
\* SampleValues.
SampleValues == <<0, 1, 3>>

RECURSIVE digit(_, _)
digit(n, i) == IF n = 0 THEN 0 ELSE IF i = 0 THEN n % 3 ELSE digit(n \div 3, i - 1)

RECURSIVE pow3(_)
pow3(i) == IF i = 0 THEN 1 ELSE 3 * pow3(i - 1)

\* the seeds explored for a request of num_samples paths of prediction_length
\* steps: all of them when the matrix is small, MaxSeed + 1 otherwise
Seeds(prediction_length, num_samples) ==
  IF prediction_length * num_samples <= MaxCells
  THEN 0..(pow3(prediction_length * num_samples) - 1)
  ELSE 0..MaxSeed

\* forecasts[0].numpy() after pipeline.predict(context, prediction_length,
\* num_samples): num_samples rows of prediction_length steps
predict(context, prediction_length, num_samples) ==
  [r \in 1..num_samples |->
     [c \in 1..prediction_length |->
        SampleValues[((digit(engine_seed, (r - 1) * prediction_length + (c - 1))
                       + r * c + r + Len(context)) % 3) + 1]]]

\* column i of a matrix given as a sequence of rows (axis=0 reduces over rows)
column(forecast_np, i) == [r \in 1..Len(forecast_np) |-> forecast_np[r][i]]

sorted(col) == SortSeq(col, LAMBDA a, b : a < b)

\* np.percentile(col, q), default linear interpolation, in hundredths: the
\* virtual index is q/100 * (N-1); the result interpolates between the order
\* statistics below and above it.
percentile(col, q) ==
  LET a == sorted(col)
      N == Len(a)
      pos == q * (N - 1)
      lo == pos \div 100
      hi == IF lo + 1 < N THEN lo + 1 ELSE lo
      g == pos - 100 * lo
  IN 100 * a[lo + 1] + g * (a[hi + 1] - a[lo + 1])

\* np.median(col), in hundredths: the middle order statistic, or the mean of
\* the two middle ones
median(col) ==
  LET a == sorted(col)
      N == Len(a)
  IN IF N % 2 = 1 THEN 100 * a[(N + 1) \div 2]
     ELSE 50 * (a[N \div 2] + a[N \div 2 + 1])

\* np.percentile(forecast_np, q, axis=0): one value per step
percentile_axis0(forecast_np, prediction_length, q) ==
  [i \in 1..prediction_length |-> percentile(column(forecast_np, i), q)]

\* np.median(forecast_np, axis=0)
median_axis0(forecast_np, prediction_length) ==
  [i \in 1..prediction_length |-> median(column(forecast_np, i))]

\* faulty variant: the 25th and 75th percentile arguments are exchanged
statistics_swapped(forecast_np, prediction_length) ==
  [median |-> median_axis0(forecast_np, prediction_length),
   low_10 |-> percentile_axis0(forecast_np, prediction_length, 10),
   high_90 |-> percentile_axis0(forecast_np, prediction_length, 90),
   low_25 |-> percentile_axis0(forecast_np, prediction_length, 75),
   high_75 |-> percentile_axis0(forecast_np, prediction_length, 25)]

\* the five per-step statistics of forecast_prices
statistics(forecast_np, prediction_length) ==
  [median |-> median_axis0(forecast_np, prediction_length),
   low_10 |-> percentile_axis0(forecast_np, prediction_length, 10),
   high_90 |-> percentile_axis0(forecast_np, prediction_length, 90),
   low_25 |-> percentile_axis0(forecast_np, prediction_length, 25),
   high_75 |-> percentile_axis0(forecast_np, prediction_length, 75)]

\* ============================================================ forecast_prices
\* The dict forecast_prices returns. prices[-1] is evaluated while the dict is
\* built, after the statistics.
forecast_dict(prices, prediction_length, forecast_np) ==
  statistics(forecast_np, prediction_length) @@
  [samples |-> forecast_np,
   last_price |-> prices[Len(prices)],
   prediction_length |-> prediction_length]

\* forecast_prices(prices, prediction_length, num_samples, model_size), with
\* the engine's answers (engine.load_ok: from_pretrained returns, engine.predict_ok:
\* predict returns). The record gives the globals after the call, the
\* identifiers loaded, the predict calls made, the exception that escaped and
\* the value returned. torch.tensor(prices) accepts an empty list, so an empty
\* prices reaches predict and fails at prices[-1].
forecast_prices(prices, prediction_length, num_samples, model_size, engine) ==
  LET gp == get_pipeline(model_size, engine.load_ok)
      globals == [pipeline |-> gp.pipeline, model_name |-> gp.model_name,
                  created |-> gp.created, loaded |-> gp.loaded]
      call == [pipeline |-> gp.ret, context |-> prices,
               prediction_length |-> prediction_length,
               num_samples |-> num_samples]
      forecast_np == predict(prices, prediction_length, num_samples)
  IN IF gp.raised # ""
       THEN globals @@ [predicts |-> <<>>, raised |-> gp.raised, ret |-> None]
     ELSE IF ~engine.predict_ok
       THEN globals @@ [predicts |-> <<call>>, raised |-> "InferenceError", ret |-> None]
     ELSE IF prices = <<>>
       THEN globals @@ [predicts |-> <<call>>, raised |-> "IndexError", ret |-> None]
     ELSE globals @@ [predicts |-> <<call>>, raised |-> "",
                      ret |-> forecast_dict(prices, prediction_length, forecast_np)]

\* ===================================================================== events
\* An event dict: each of its three keys is absent (<<>>) or present (<<v>>).
Tags == {"surprising_positive", "x"}
Strengths == {0, 3}
Returns == {-1, 0, 1}
Opt(S) == {<<>>} \cup {<<v>> : v \in S}
EventRecords ==
  [classification : Opt(Tags), strength : Opt(Strengths), residual_return : Opt(Returns)]
EmptyDict == [classification |-> <<>>, strength |-> <<>>, residual_return |-> <<>>]

\* e.get(key, default)
dict_get(e, key, default) == IF e[key] = <<>> THEN default ELSE e[key][1]

\* the filter "if e.get(key)": the key is present and its number is not 0
truthy_get(e, key) == e[key] # <<>> /\ e[key][1] # 0

filtered_values(events, key) ==
  LET kept == SelectSeq(events, LAMBDA e : truthy_get(e, key))
  IN [i \in 1..Len(kept) |-> dict_get(kept[i], key, 0)]

\* faulty variant: the comprehension has no filter
event_returns_unfiltered(events) ==
  [i \in 1..Len(events) |-> dict_get(events[i], "residual_return", 0)]

\* [e.get("residual_return", 0) for e in events if e.get("residual_return")]
event_returns(events) == filtered_values(events, "residual_return")

\* [e.get("strength", 0) for e in events if e.get("strength")]
event_strengths(events) == filtered_values(events, "strength")

RECURSIVE sum(_)
sum(xs) == IF xs = <<>> THEN 0 ELSE xs[1] + sum(Tail(xs))

max(a, b) == IF a >= b THEN a ELSE b
min(a, b) == IF a <= b THEN a ELSE b
abs(a) == IF a < 0 THEN -a ELSE a

\* np.mean(xs) if xs else 0
mean_or_zero(xs) == IF xs # <<>> THEN <<sum(xs), Len(xs)>> ELSE <<0, 1>>

\* faulty variant: an event without a classification is counted under the key None
classification_no_default(e) == dict_get(e, "classification", "null")

\* e.get("classification", "unknown")
classification_of(e) == dict_get(e, "classification", "unknown")

\* the event_types dict: events per classification
event_types(events) ==
  [cls \in {classification_of(events[i]) : i \in 1..Len(events)} |->
     Cardinality({i \in 1..Len(events) : classification_of(events[i]) = cls})]

\* the "event_context" dict of forecast_with_events, for a non-empty list
event_context(events) ==
  LET returns == event_returns(events)
      positive_events == Len(SelectSeq(returns, LAMBDA r : r > 0))
      negative_events == Len(SelectSeq(returns, LAMBDA r : r < 0))
  IN [num_events |-> Len(events),
      avg_event_return |-> mean_or_zero(returns),
      avg_event_strength |-> mean_or_zero(event_strengths(events)),
      event_bias |-> <<positive_events - negative_events, max(Len(returns), 1)>>,
      positive_events |-> positive_events,
      negative_events |-> negative_events,
      event_types |-> event_types(events)]

\* what forecast_with_events returns once the base forecast has returned
with_events_dict(base_forecast, events) ==
  IF events = <<>>
  THEN base_forecast @@ [event_context |-> None]
  ELSE base_forecast @@ [event_context |-> event_context(events)]

\* the number of samples the event modes and main pass to forecast_prices
NUM_SAMPLES == 20

\* faulty variant: the base forecast is requested with forecast_prices' own defaults
\* shifted by one position (prediction_length passed as num_samples)
forecast_with_events_shifted(prices, events, prediction_length, model_size, engine) ==
  LET o == forecast_prices(prices, prediction_length, prediction_length, model_size, engine)
  IN IF o.raised # "" THEN o
     ELSE [o EXCEPT !.ret = with_events_dict(o.ret, events)]

\* forecast_with_events(prices, events, prediction_length, model_size): an
\* exception of the base forecast escapes before the events are looked at
forecast_with_events(prices, events, prediction_length, model_size, engine) ==
  LET base_forecast == forecast_prices(prices, prediction_length, NUM_SAMPLES, model_size, engine)
  IN IF base_forecast.raised # "" THEN base_forecast
     ELSE [base_forecast EXCEPT !.ret = with_events_dict(base_forecast.ret, events)]

\* ================================================================= post-event
continuation_factors ==
  [surprising_positive |-> <<3, 10>>,
   positive_anticipated |-> <<-1, 10>>,
   negative_anticipated |-> <<1, 10>>,
   surprising_negative |-> <<-2, 10>>]

\* the "event_analysis" dict of forecast_post_event
event_analysis(event) ==
  LET classification == dict_get(event, "classification", "unknown")
      strength == dict_get(event, "strength", 0)
      residual_return == dict_get(event, "residual_return", 0)
  IN [classification |-> classification,
      strength |-> strength,
      residual_return |-> residual_return,
      expected_continuation |->
        IF classification \in DOMAIN continuation_factors
        THEN continuation_factors[classification] ELSE <<0, 1>>,
      confidence |-> <<min(abs(strength), 10), 10>>]

\* "if not event": None and the empty dict are both falsy
not_event(event) == event = None \/ event = EmptyDict

\* what forecast_post_event returns once the base forecast has returned
post_event_dict(base_forecast, event) ==
  IF not_event(event) THEN base_forecast
  ELSE base_forecast @@ [event_analysis |-> event_analysis(event)]

\* forecast_post_event(prices, event, prediction_length, model_size)
forecast_post_event(prices, event, prediction_length, model_size, engine) ==
  LET base_forecast == forecast_prices(prices, prediction_length, NUM_SAMPLES, model_size, engine)
  IN IF base_forecast.raised # "" THEN base_forecast
     ELSE [base_forecast EXCEPT !.ret = post_event_dict(base_forecast.ret, event)]

\* ======================================================================= main
\* json.dumps(obj) printed as one line: one document holding obj
json_dumps(obj) == [document |-> obj]

\* faulty variant: only a missing value is rejected (prices is None)
not_prices_none_only(prices) == FALSE

\* "if not prices": data.get("prices", []) is empty (key missing, or [])
not_prices(prices) == prices = <<>>

\* main() after argument parsing and json.load: args is [mode, model, days],
\* data the input object with optional keys prices, events, event. An outcome
\* adds the documents printed and the exit status; an exception that escapes a
\* forecast function is not caught, so nothing is printed and Python exits 1.
main(args, data, engine) ==
  LET prices == dict_get(data, "prices", <<>>)
      events == dict_get(data, "events", <<>>)
      event == dict_get(data, "event", None)
      finish(o) == IF o.raised # ""
                   THEN o @@ [stdout |-> <<>>, exit_code |-> 1]
                   ELSE o @@ [stdout |-> <<json_dumps(o.ret)>>, exit_code |-> 0]
  IN IF not_prices(prices)
     THEN [pipeline |-> _pipeline, model_name |-> _model_name, created |-> created,
           loaded |-> <<>>, predicts |-> <<>>, raised |-> "SystemExit", ret |-> None,
           stdout |-> <<json_dumps([error |-> "No prices provided"])>>,
           exit_code |-> 1]
     ELSE IF args.mode = "forecast"
       THEN finish(forecast_prices(prices, args.days, NUM_SAMPLES, args.model, engine))
     ELSE IF args.mode = "with_events"
       THEN finish(forecast_with_events(prices, events, args.days, args.model, engine))
     ELSE finish(forecast_post_event(prices, event, args.days, args.model, engine))

\* =================================================================== requests
Engines == [load_ok : BOOLEAN, predict_ok : BOOLEAN]

PriceSeries == {<<100, 101, 99, 102, 103>>, <<5>>}
AnyPrices == {<<>>} \cup PriceSeries

RECURSIVE SeqsUpTo(_, _)
SeqsUpTo(S, n) ==
  IF n = 0 THEN {<<>>}
  ELSE LET shorter == SeqsUpTo(S, n - 1)
       IN shorter \cup {Append(xs, x) : xs \in {ys \in shorter : Len(ys) = n - 1}, x \in S}

EventLists == SeqsUpTo(EventRecords, MaxEvents)
ShortEventLists == SeqsUpTo(EventRecords, 1)

\* the operation returned (or raised): its effects become the state
Return(o) ==
  /\ _pipeline' = o.pipeline
  /\ _model_name' = o.model_name
  /\ created' = o.created
  /\ load_calls' = o.loaded
  /\ predict_calls' = o.predicts
  /\ result' = o.ret
  /\ raised' = o.raised
  /\ pc' = "done"
  /\ UNCHANGED <<req, engine_seed, ncalls, last, prev>>

\* a library caller calls forecast_prices
CallForecastPrices ==
  /\ pc = "ready" /\ req.entry = "forecast_prices"
  /\ \E engine \in Engines :
       Return(forecast_prices(req.prices, req.prediction_length, req.num_samples,
                              req.model_size, engine))
  /\ UNCHANGED <<stdout, exit_code>>

\* a library caller calls forecast_with_events
CallForecastWithEvents ==
  /\ pc = "ready" /\ req.entry = "forecast_with_events"
  /\ \E engine \in Engines :
       Return(forecast_with_events(req.prices, req.events, req.prediction_length,
                                   req.model_size, engine))
  /\ UNCHANGED <<stdout, exit_code>>

\* a library caller calls forecast_post_event
CallForecastPostEvent ==
  /\ pc = "ready" /\ req.entry = "forecast_post_event"
  /\ \E engine \in Engines :
       Return(forecast_post_event(req.prices, req.event, req.prediction_length,
                                  req.model_size, engine))
  /\ UNCHANGED <<stdout, exit_code>>

\* the program is run from the command line
Main ==
  /\ pc = "ready" /\ req.entry = "main"
  /\ \E engine \in Engines :
       LET o == main(req.args, req.data, engine)
       IN Return(o) /\ stdout' = o.stdout /\ exit_code' = o.exit_code

\* the state of a fresh process, before the request runs
Fresh ==
  /\ _pipeline = None /\ _model_name = NoName /\ created = 0
  /\ ncalls = 0 /\ last = None /\ prev = None
  /\ pc = "ready"
  /\ load_calls = <<>> /\ predict_calls = <<>>
  /\ result = None /\ raised = "" /\ stdout = <<>> /\ exit_code = -1

\* ---- SpecSummary: forecast_prices over every small sample matrix
SummaryRequests ==
  { r \in [entry : {"forecast_prices"}, prices : {<<100, 101, 99, 102, 103>>},
           prediction_length : 1..MaxDays, num_samples : 1..MaxSamples,
           model_size : {"small"}] :
      r.prediction_length * r.num_samples <= MaxCells }

InitSummary ==
  /\ Fresh
  /\ req \in SummaryRequests
  /\ engine_seed \in Seeds(req.prediction_length, req.num_samples)

NextSummary == CallForecastPrices

SpecSummary == InitSummary /\ [][NextSummary]_vars

\* ---- SpecEvents: forecast_with_events over every short event list
EventRequests ==
  [entry : {"forecast_with_events"}, prices : {<<100, 101, 99, 102, 103>>},
   events : EventLists, prediction_length : {1}, model_size : {"small"}]

InitEvents ==
  /\ Fresh
  /\ req \in EventRequests
  /\ engine_seed = 0

NextEvents == CallForecastWithEvents

SpecEvents == InitEvents /\ [][NextEvents]_vars

\* ---- Spec: one request, by the command line or by a library caller
MainData(mode) ==
  [prices : Opt(AnyPrices),
   events : IF mode = "with_events" THEN Opt(ShortEventLists) ELSE {<<>>},
   event : IF mode = "post_event" THEN Opt(EventRecords) ELSE {<<>>}]

MainRequests ==
  UNION { [entry : {"main"},
           args : [mode : {mode}, model : Sizes, days : 1..MaxDays],
           data : MainData(mode)] :
          mode \in {"forecast", "with_events", "post_event"} }

DirectRequests ==
  [entry : {"forecast_prices"}, prices : AnyPrices, prediction_length : 1..MaxDays,
   num_samples : {NUM_SAMPLES}, model_size : AllSizes]
  \cup
  [entry : {"forecast_with_events"}, prices : AnyPrices, events : ShortEventLists,
   prediction_length : 1..MaxDays, model_size : AllSizes]
  \cup
  [entry : {"forecast_post_event"}, prices : AnyPrices,
   event : {None} \cup EventRecords,
   prediction_length : 1..MaxDays, model_size : AllSizes]

Init ==
  /\ Fresh
  /\ req \in MainRequests \cup DirectRequests
  /\ engine_seed \in 0..MaxSeed

Next ==
  \/ Main
  \/ CallForecastPrices
  \/ CallForecastWithEvents
  \/ CallForecastPostEvent

Spec == Init /\ [][Next]_vars

\* ============================================== claims on the forecast modes
Done == pc = "done"
Returned == pc = "done" /\ raised = ""

ErrorDocument == [document |-> [error |-> "No prices provided"]]

\* the prices a request carries, a missing "prices" key read as the empty list
RequestPrices ==
  IF req.entry = "main"
  THEN (IF req.data.prices = <<>> THEN <<>> ELSE req.data.prices[1])
  ELSE req.prices

\* C2 as stated: an empty prices given to forecast (or to the program) yields
\* an input error and neither a load nor a predict call is made. (Stated for a
\* working engine: no load or predict failure.)
C2_AsStated ==
  (Done /\ req.entry \in {"forecast_prices", "main"} /\ RequestPrices = <<>>
     /\ raised \notin {"ModelLoadError", "InferenceError"}) =>
    /\ load_calls = <<>>
    /\ predict_calls = <<>>
    /\ raised = "InputError" \/ stdout = <<ErrorDocument>>

\* C2 amended: the rejection is made by the program's entry point only. Run
\* with a missing or empty prices, the program prints the single document
\* {"error": "No prices provided"}, exits with status 1 and makes no load and no
\* predict call, the cache staying empty. forecast_prices called directly with
\* an empty prices is not guarded: it never returns a result, but only after
\* the handle was acquired.
C2_MainRejectsEmpty ==
  /\ (Done /\ req.entry = "main" /\ RequestPrices = <<>>) =>
       /\ stdout = <<ErrorDocument>>
       /\ exit_code = 1
       /\ load_calls = <<>> /\ predict_calls = <<>>
       /\ _pipeline = None /\ _model_name = NoName /\ created = 0
  /\ (Done /\ req.entry = "forecast_prices" /\ RequestPrices = <<>>) =>
       /\ result = None
       /\ raised \in {"ModelLoadError", "InferenceError", "IndexError"}
       /\ Len(load_calls) = 1
       /\ raised # "ModelLoadError" => Len(predict_calls) = 1

C2_Witness ==
  /\ Done /\ req.entry = "main" /\ req.args.mode = "with_events"
  /\ req.data.prices = << <<>> >>
  /\ stdout = <<ErrorDocument>> /\ exit_code = 1 /\ load_calls = <<>>

\* C3: every run of the program prints exactly one JSON document: the forecast
\* result, or the single-key error object; also when the engine fails.
C3_AsStated ==
  (Done /\ req.entry = "main") =>
    /\ Len(stdout) = 1
    /\ \/ stdout[1] = ErrorDocument
       \/ result # None /\ stdout[1] = [document |-> result]

\* the mode and the event of the request, and the analysis of its result with
\* a missing event_analysis key read as null
ModeOfRequest ==
  IF req.entry = "main" THEN req.args.mode
  ELSE IF req.entry = "forecast_prices" THEN "forecast"
  ELSE IF req.entry = "forecast_with_events" THEN "with_events"
  ELSE "post_event"

EventOfRequest ==
  IF req.entry = "main"
  THEN (IF req.data.event = <<>> THEN None ELSE req.data.event[1])
  ELSE req.event

AnalysisOfResult ==
  IF "event_analysis" \in DOMAIN result THEN result.event_analysis ELSE None

\* C4: the result of plain mode has neither event key; of aggregated mode,
\* event_context and no event_analysis; of post-event mode, no event_context and
\* an event_analysis that is null (or left out) exactly when the event is null.
C4_AsStated ==
  Returned =>
    /\ ModeOfRequest = "forecast" =>
         /\ "event_context" \notin DOMAIN result
         /\ "event_analysis" \notin DOMAIN result
    /\ ModeOfRequest = "with_events" =>
         /\ "event_context" \in DOMAIN result
         /\ "event_analysis" \notin DOMAIN result
    /\ ModeOfRequest = "post_event" =>
         /\ "event_context" \notin DOMAIN result
         /\ (AnalysisOfResult = None) <=> (EventOfRequest = None)

\* C5: forecast_with_events makes one base forecast: at most one predict call,
\* exactly one once the handle is acquired, always for 20 samples, the given
\* prediction length and the given prices; and with no events its result is
\* the result of forecast_prices(prices, n, 20, size) from the same engine plus
\* the one key event_context, which is null.
C5_ModeComposition ==
  (Done /\ req.entry = "forecast_with_events") =>
    /\ Len(predict_calls) <= 1
    /\ raised # "ModelLoadError" =>
         /\ Len(predict_calls) = 1
         /\ predict_calls[1].num_samples = 20
         /\ predict_calls[1].prediction_length = req.prediction_length
         /\ predict_calls[1].context = req.prices
         /\ predict_calls[1].pipeline.model = target_model(req.model_size)
    /\ (raised = "" /\ req.events = <<>>) =>
         LET plain == forecast_prices(req.prices, req.prediction_length, 20,
                                      req.model_size,
                                      [load_ok |-> TRUE, predict_ok |-> TRUE]).ret
         IN /\ DOMAIN result = DOMAIN plain \cup {"event_context"}
            /\ \A k \in DOMAIN plain : result[k] = plain[k]
            /\ result.event_context = None
            /\ Len(result.samples) = 20

C5_Witness ==
  /\ Returned /\ req.entry = "forecast_with_events" /\ req.events = <<>>
  /\ req.model_size = "base" /\ req.prediction_length = 2
  /\ result.event_context = None /\ Len(result.samples) = 20
  /\ Len(predict_calls) = 1

\* ------------------------------------------------ claims on the statistics
\* the k-th smallest value of a column, without sorting it
OrderStatistic(col, k) ==
  CHOOSE v \in {col[r] : r \in 1..Len(col)} :
    /\ Cardinality({r \in 1..Len(col) : col[r] < v}) < k
    /\ k <= Cardinality({r \in 1..Len(col) : col[r] <= v})

\* the q-th percentile of a column by linear interpolation between the order
\* statistics around rank q/100 * (N - 1), in hundredths
LinearPercentile(col, q) ==
  LET pos == q * (Len(col) - 1)
      below == pos \div 100
      part == pos % 100
  IN IF part = 0 THEN 100 * OrderStatistic(col, below + 1)
     ELSE (100 - part) * OrderStatistic(col, below + 1)
          + part * OrderStatistic(col, below + 2)

ColumnOfSamples(i) == [r \in 1..Len(result.samples) |-> result.samples[r][i]]

\* C6: in the summary forecast_prices returns, the five sequences have length
\* prediction_length, each step's values are the 10th, 25th, 50th, 75th and
\* 90th linear-interpolation percentiles of that step's column over all sample
\* rows, and low_10 <= low_25 <= median <= high_75 <= high_90 at every step.
C6_PercentileMonotonicity ==
  (Returned /\ req.entry = "forecast_prices") =>
    /\ Len(result.samples) = req.num_samples
    /\ \A key \in {"low_10", "low_25", "median", "high_75", "high_90"} :
         Len(result[key]) = req.prediction_length
    /\ \A i \in 1..req.prediction_length :
         /\ result.low_10[i] <= result.low_25[i]
         /\ result.low_25[i] <= result.median[i]
         /\ result.median[i] <= result.high_75[i]
         /\ result.high_75[i] <= result.high_90[i]
         /\ result.low_10[i] = LinearPercentile(ColumnOfSamples(i), 10)
         /\ result.low_25[i] = LinearPercentile(ColumnOfSamples(i), 25)
         /\ result.median[i] = LinearPercentile(ColumnOfSamples(i), 50)
         /\ result.high_75[i] = LinearPercentile(ColumnOfSamples(i), 75)
         /\ result.high_90[i] = LinearPercentile(ColumnOfSamples(i), 90)

C6_Witness ==
  /\ Returned /\ req.entry = "forecast_prices"
  /\ req.num_samples = 4 /\ req.prediction_length = 2
  /\ ColumnOfSamples(1) = <<3, 0, 1, 1>>
  /\ result.low_10[1] = 30 /\ result.low_25[1] = 75 /\ result.median[1] = 100
  /\ result.high_75[1] = 150 /\ result.high_90[1] = 240

\* ------------------------------------------------ claims on the aggregation
\* the events whose residual_return is present and not zero
Contributing ==
  {i \in 1..Len(req.events) :
     req.events[i].residual_return # <<>> /\ req.events[i].residual_return[1] # 0}

\* C7: for a non-empty event list, event_bias is (positive - negative) over
\* max(1, number of events with a present, non-zero residual_return), lies in
\* [-1, 1], and the two counts range over those events only.
C7_SentimentBias ==
  (Returned /\ req.entry = "forecast_with_events" /\ req.events # <<>>) =>
    LET ctx == result.event_context
        pos == Cardinality({i \in Contributing : req.events[i].residual_return[1] > 0})
        neg == Cardinality({i \in Contributing : req.events[i].residual_return[1] < 0})
        size == Cardinality(Contributing)
    IN /\ ctx.event_bias = <<pos - neg, IF size >= 1 THEN size ELSE 1>>
       /\ -ctx.event_bias[2] <= ctx.event_bias[1]
       /\ ctx.event_bias[1] <= ctx.event_bias[2]
       /\ ctx.event_bias[2] >= 1
       /\ ctx.positive_events = pos
       /\ ctx.negative_events = neg
       /\ ctx.positive_events + ctx.negative_events <= size

C7_Witness ==
  /\ Returned /\ req.entry = "forecast_with_events" /\ Len(req.events) = 2
  /\ req.events[1].residual_return = <<0>>
  /\ req.events[2].residual_return = <<-1>>
  /\ result.event_context.event_bias = <<-1, 1>>

\* C8: with no events the context is null; with a non-empty list of events that
\* have no field at all, the context counts them, has zero means, zero bias,
\* zero positive and negative counts, and the histogram {"unknown": count}.
C8_AggregationEmptiness ==
  (Returned /\ req.entry = "forecast_with_events") =>
    /\ req.events = <<>> => result.event_context = None
    /\ (req.events # <<>> /\ \A i \in 1..Len(req.events) : req.events[i] = EmptyDict) =>
         LET ctx == result.event_context
         IN /\ ctx # None
            /\ ctx.num_events = Len(req.events)
            /\ ctx.avg_event_return[1] = 0
            /\ ctx.avg_event_strength[1] = 0
            /\ ctx.event_bias[1] = 0
            /\ ctx.positive_events = 0
            /\ ctx.negative_events = 0
            /\ ctx.event_types = [unknown |-> Len(req.events)]

C8_Witness ==
  /\ Returned /\ req.entry = "forecast_with_events"
  /\ req.events = <<EmptyDict, EmptyDict>>
  /\ result.event_context.num_events = 2
  /\ result.event_context.event_types = [unknown |-> 2]

====
